---- MODULE Spec2Model ----
(***************************************************************************)
(* Care-bot User API server: the login-session subsystem.                  *)
(*                                                                         *)
(*   Database/authentication.py  create_session, delete_session,           *)
(*                               check_current_user, cleanup_login_sessions*)
(*   Routers/authentication.py   login, logout                             *)
(*   Routers/authentication.py   change_password                           *)
(*   Database/connector.py       get_one_account, get_hashed_password,     *)
(*                               get_all_email, create_account,            *)
(*                               update_one_account                        *)
(*   main.py                     create_account, update_account            *)
(*   Routers/notifications.py    crate_notification, get_new_notification, *)
(*                               get_all_notification, read_notification,  *)
(*                               delete_notification                       *)
(*                                                                         *)
(* Scheduling.  login, logout and cleanup_login_sessions are coroutines    *)
(* that call the blocking store functions without awaiting in between, so  *)
(* they exclude each other on the event loop (variable loop).              *)
(* check_current_user is a plain function used as a FastAPI dependency: it *)
(* runs on the thread pool (variable req, one entry per worker thread),    *)
(* concurrently with the event loop and with other resolves.  Every store  *)
(* function opens its own transaction; a transaction's snapshot read and   *)
(* its write (DELETE / UPDATE by primary key, then commit) are separate    *)
(* steps, and the write acts on the row as committed at that moment.       *)
(*                                                                         *)
(* Specifications.  Spec is the session subsystem over a store that does  *)
(* not fail.  LiveSpec adds the fairness of the clock and the event loop.  *)
(* FaultSpec lets the transactions of the event loop's store calls fail.   *)
(* AccountSpec is the account routes; RoleSpec is update_account among the *)
(* session operations; ProtectedSpec is change_password behind its         *)
(* check_current_user dependency; NotifySpec is the notification routes    *)
(* behind the same dependency.                                             *)
(*                                                                         *)
(* Time.  now counts clock ticks, TicksPerSecond to the second.  int(time()) *)
(* and the store's NOW() are whole seconds (NowSec); the sweep's cutoff    *)
(* datetime.now() - timedelta keeps the sub-second part.                   *)
(***************************************************************************)
EXTENDS Integers, FiniteSets, Sequences, TLC

\* ------------------------------------------------------------- bounds
MaxTick == 4
TicksPerSecond == 2
MaxSessions == 2
MaxNotifications == 2

\* SESSION_EXPIRE_TIME, in seconds (1800 by default; scaled down here)
session_expire_time == 1

\* ------------------------------------------------------------- values
Threads == {"t1", "t2"}
XIDs == 1..MaxSessions
NoCookie == 0
Users == {"u1", "u2"}
\* request bodies of login: <<email, password>>
LoginInputs ==
  {<<"", "p1">>, <<"e1", "">>, <<"e1", "p1">>, <<"e1", "p2">>,
   <<"e2", "p2">>, <<"e9", "p1">>}

VARIABLES now, accounts, sessions, next_xid, req, loop, cleanup_alive,
          notifications

vars == <<now, accounts, sessions, next_xid, req, loop, cleanup_alive,
          notifications>>

\* int(time()) and the store's NOW(): the current whole second
NowSec == now \div TicksPerSecond

\* hash_password / verify_password of the credential verifier
hash_password(p) == <<"hashed", p>>

verify_password(p, h) == h = hash_password(p)

\* the accounts table as the session subsystem reads it
InitAccounts ==
  [u \in Users |->
     IF u = "u1"
     THEN [email |-> "e1", password |-> hash_password("p1"), role |-> "MAIN"]
     ELSE [email |-> "e2", password |-> hash_password("p2"), role |-> "SUB"]]

\* LoginSessionsTable(xid, user_id, is_main_user): last_active is the column default
NewRow(u, m) == [user_id |-> u, last_active |-> NowSec, is_main_user |-> m]

\* the result of query(LoginSessionsTable).filter(xid == sid).first()
NoData == [found |-> FALSE, user_id |-> "", last_active |-> 0, is_main_user |-> FALSE]

QueryFirst(sid) ==
  IF sid \in DOMAIN sessions
  THEN [found |-> TRUE, user_id |-> sessions[sid].user_id,
        last_active |-> sessions[sid].last_active,
        is_main_user |-> sessions[sid].is_main_user]
  ELSE NoData

\* DELETE FROM login_sessions WHERE xid IN gone (rows already gone: no effect)
DeleteRows(store, gone) == [x \in (DOMAIN store) \ gone |-> store[x]]

\* INSERT of one row
InsertRow(store, xid, row) ==
  [x \in (DOMAIN store) \cup {xid} |-> IF x = xid THEN row ELSE store[x]]

\* variant: the UPDATE never reaches the store
UpdateLastActive_unwritten(store, sid) == store

\* variant: the refresh writes the row back when it is gone
UpdateLastActive_upsert(store, sid) ==
  [x \in (DOMAIN store) \cup {sid} |->
     IF x = sid
     THEN [user_id |-> IF sid \in DOMAIN store THEN store[sid].user_id ELSE "u1",
           last_active |-> NowSec,
           is_main_user |-> IF sid \in DOMAIN store THEN store[sid].is_main_user ELSE FALSE]
     ELSE store[x]]

\* UPDATE login_sessions SET last_active = NOW() WHERE xid = sid
UpdateLastActive(store, sid) ==
  [x \in DOMAIN store |->
     IF x = sid THEN [store[x] EXCEPT !.last_active = NowSec] ELSE store[x]]

\* ------------------------------------------------------- thread state
IdleThread ==
  [pc |-> "idle", session_id |-> NoCookie, login_data |-> NoData, user_id |-> ""]

\* ---------------------------------------------------- event-loop state
\* the "password" entry of a failure response's detail.input: left out, ...
Omitted == "omitted"

\* ... or replaced by the placeholder
Redacted == "<PASSWORD>"

\* <<type, message>> of a failure response's detail; none in other responses
NoDetail == <<"", "">>

\* op/stage: the coroutine on the event loop and how far it got; raised: a
\* storage exception left the store function uncaught; user_id: the account
\* the request names
IdleLoop ==
  [op |-> "idle", stage |-> "idle", email |-> "", password |-> "",
   session_id |-> NoCookie, found |-> FALSE, expired |-> {},
   status |-> 0, set_cookie |-> NoCookie, del_cookie |-> FALSE, result |-> FALSE,
   raised |-> FALSE, input_password |-> Omitted, detail |-> NoDetail,
   user_id |-> "", current_password |-> "", family_id |-> "",
   notification_id |-> 0]

Init ==
  /\ now = 0
  /\ accounts = InitAccounts
  /\ sessions = [x \in {} |-> NewRow("u1", FALSE)]
  /\ next_xid = 1
  /\ req = [t \in Threads |-> IdleThread]
  /\ loop = IdleLoop
  /\ cleanup_alive = TRUE
  /\ notifications = [rows |-> <<>>, auto_increment |-> 1]

\* the clock advances
Tick ==
  /\ now < MaxTick
  /\ now' = now + 1
  /\ UNCHANGED <<accounts, sessions, next_xid, req, loop, cleanup_alive, notifications>>

\* ------------------------------------------------ check_current_user
\* variant: the timeout is one second too long
IsExpired_late(login_data, current_time) ==
  /\ ~login_data.is_main_user
  /\ current_time - login_data.last_active > session_expire_time + 1

\* variant: the expiry test ignores is_main_user
IsExpired_everyone(login_data, current_time) ==
  current_time - login_data.last_active > session_expire_time

\* the expiry test of a non-privileged session
IsExpired(login_data, current_time) ==
  /\ ~login_data.is_main_user
  /\ current_time - login_data.last_active > session_expire_time

\* variant: a missing row is not told apart from a found one
ccu_query_falls_through(t) ==
  /\ req[t].pc = "idle"
  /\ \E c \in XIDs \cup {NoCookie} :
       LET d == IF c = NoCookie THEN NoData ELSE QueryFirst(c)
       IN  req' = [req EXCEPT ![t] =
                     [pc |-> IF c # NoCookie THEN "read" ELSE "done",
                      session_id |-> c, login_data |-> d, user_id |-> ""]]
  /\ UNCHANGED <<now, cleanup_alive, notifications, accounts, sessions, next_xid, loop>>

\* cookie lookup and the query of the session row
ccu_query(t) ==
  /\ req[t].pc = "idle"
  /\ \E c \in XIDs \cup {NoCookie} :
       LET d == IF c = NoCookie THEN NoData ELSE QueryFirst(c)
       IN  req' = [req EXCEPT ![t] =
                     [pc |-> IF d.found THEN "read" ELSE "done",
                      session_id |-> c, login_data |-> d, user_id |-> ""]]
  /\ UNCHANGED <<now, cleanup_alive, notifications, accounts, sessions, next_xid, loop>>

\* the expiry check against int(time()); the branch taken is the new pc
ccu_check(t) ==
  /\ req[t].pc = "read"
  /\ req' = [req EXCEPT
               ![t].pc = IF IsExpired(req[t].login_data, NowSec)
                         THEN "expired" ELSE "fresh"]
  /\ UNCHANGED <<now, cleanup_alive, notifications, accounts, sessions, next_xid, loop>>

\* variant: the expired branch returns without deleting the row
ccu_expire_keeps_row(t) ==
  /\ req[t].pc = "expired"
  /\ req' = [req EXCEPT ![t].pc = "done", ![t].user_id = ""]
  /\ UNCHANGED <<now, cleanup_alive, notifications, accounts, sessions, next_xid, loop>>

\* expired: session.delete(login_data); session.commit(); return ""
ccu_expire(t) ==
  /\ req[t].pc = "expired"
  /\ sessions' = DeleteRows(sessions, {req[t].session_id})
  /\ req' = [req EXCEPT ![t].pc = "done", ![t].user_id = ""]
  /\ UNCHANGED <<now, cleanup_alive, notifications, accounts, next_xid, loop>>

\* not expired: UPDATE last_active = now(); commit; return login_data.user_id
ccu_refresh(t) ==
  /\ req[t].pc = "fresh"
  /\ sessions' = UpdateLastActive(sessions, req[t].session_id)
  /\ req' = [req EXCEPT ![t].pc = "done", ![t].user_id = req[t].login_data.user_id]
  /\ UNCHANGED <<now, cleanup_alive, notifications, accounts, next_xid, loop>>

\* the dependency's value is handed to the route; the worker thread is free again
ccu_return(t) ==
  /\ req[t].pc = "done"
  /\ req' = [req EXCEPT ![t] = IdleThread]
  /\ UNCHANGED <<now, cleanup_alive, notifications, accounts, sessions, next_xid, loop>>

\* ------------------------------------------------------ create_session
\* variant: the new row is never added
create_session_unsaved(store, xid, row) == store

\* variant: a login ends the user's other sessions
create_session_single(store, xid, row) ==
  InsertRow(DeleteRows(store, {x \in DOMAIN store : store[x].user_id = row.user_id}),
            xid, row)

\* session.add(session_data); result = True; commit
create_session(store, xid, row) == InsertRow(store, xid, row)

\* ------------------------------------------------------------- login
\* the id of the account registered with this email, "" when there is none
get_id_from_email(email) ==
  IF \E u \in DOMAIN accounts : accounts[u].email = email
  THEN CHOOSE u \in DOMAIN accounts : accounts[u].email = email
  ELSE ""

\* the account's public fields, found = FALSE for the empty dict
get_one_account(account_id) ==
  IF account_id \in DOMAIN accounts
  THEN [found |-> TRUE, email |-> accounts[account_id].email,
        role |-> accounts[account_id].role]
  ELSE [found |-> FALSE, email |-> "", role |-> ""]

get_hashed_password(account_id) == accounts[account_id].password

\* random_xid(16): an identifier that was never issued before
random_xid == next_xid

\* the <<type, message>> of login's failure responses, one per raise
LoginDataRequired == <<"no data", "Login data is required">>

UnknownEmail == <<"unauthorized", "Invalid email or password">>

AccountNotFound == <<"unauthorized", "Invalid email or password">>

\* variant: the wrong-password response says so
WrongPassword_named == <<"unauthorized", "Invalid password">>

WrongPassword == <<"unauthorized", "Invalid email or password">>

\* the response of a login request that creates no session
LoginRefused(e, p, code, detail) ==
  /\ loop' = [IdleLoop EXCEPT !.op = "login", !.stage = "done", !.email = e,
                              !.password = p, !.status = code,
                              !.input_password = Redacted, !.detail = detail]
  /\ UNCHANGED <<sessions, next_xid>>

\* variant: SUB accounts are given privileged sessions too
LoginRow_sub_privileged(user_id) ==
  NewRow(user_id, get_one_account(user_id).role \in {"MAIN", "SUB"})

\* the session row login builds for the verified user
LoginRow(user_id) == NewRow(user_id, get_one_account(user_id).role = "MAIN")

\* create the session row and set the session_id cookie
LoginAccepted(e, p, user_id) ==
  /\ next_xid <= MaxSessions
  /\ sessions' = create_session(sessions, random_xid, LoginRow(user_id))
  /\ next_xid' = next_xid + 1
  /\ loop' = [IdleLoop EXCEPT !.op = "login", !.stage = "done", !.email = e,
                              !.password = p, !.status = 200,
                              !.set_cookie = random_xid, !.result = TRUE]

\* variant: every password is accepted
PasswordVerified_skipped(p, user_id) == TRUE

\* the password check of login
PasswordVerified(p, user_id) == verify_password(p, get_hashed_password(user_id))

login ==
  /\ loop.op = "idle"
  /\ \E in \in LoginInputs :
       LET e == in[1]
           p == in[2]
           user_id == get_id_from_email(e)
       IN  IF e = "" \/ p = "" THEN LoginRefused(e, p, 422, LoginDataRequired)
           ELSE IF user_id = "" THEN LoginRefused(e, p, 401, UnknownEmail)
           ELSE IF ~get_one_account(user_id).found
             THEN LoginRefused(e, p, 401, AccountNotFound)
           ELSE IF ~PasswordVerified(p, user_id)
             THEN LoginRefused(e, p, 401, WrongPassword)
           ELSE LoginAccepted(e, p, user_id)
  /\ UNCHANGED <<now, cleanup_alive, notifications, accounts, req>>

\* ------------------------------------------------------------ logout
\* the status logout answers with, given delete_session's result
LogoutStatus(result) == IF result THEN 200 ELSE 500

\* logout reads the cookie; with one, delete_session queries the row
logout_query ==
  /\ loop.op = "idle"
  /\ \E c \in XIDs \cup {NoCookie} :
       loop' = IF c = NoCookie
               THEN [IdleLoop EXCEPT !.op = "logout", !.stage = "done", !.status = 200]
               ELSE [IdleLoop EXCEPT !.op = "logout", !.stage = "read",
                                     !.session_id = c,
                                     !.found = QueryFirst(c).found]
  /\ UNCHANGED <<now, cleanup_alive, notifications, accounts, sessions, next_xid, req>>

\* variant: success is reported whether or not a row was found
delete_session_result_always(found) == TRUE

\* delete_session's result: True when the query found a row
delete_session_result(found) == found

\* variant: every row of the session's user is deleted
delete_session_by_owner(store, sid, found) ==
  IF found /\ sid \in DOMAIN store
  THEN DeleteRows(store, {x \in DOMAIN store : store[x].user_id = store[sid].user_id})
  ELSE store

\* the store after delete_session: session.delete(session_data) of the row found
delete_session(store, sid, found) ==
  IF found THEN DeleteRows(store, {sid}) ELSE store

\* delete_session deletes the row it found and commits; logout answers
logout_commit ==
  /\ loop.op = "logout" /\ loop.stage = "read"
  /\ sessions' = delete_session(sessions, loop.session_id, loop.found)
  /\ LET result == delete_session_result(loop.found)
     IN  loop' = [loop EXCEPT !.stage = "done", !.result = result,
                              !.status = LogoutStatus(result),
                              !.del_cookie = result]
  /\ UNCHANGED <<now, cleanup_alive, notifications, accounts, next_xid, req>>

\* -------------------------------------------- cleanup_login_sessions
\* variant: the query does not filter on is_main_user
ExpiredSessions_any_role(store, tick) ==
  {x \in DOMAIN store :
     store[x].last_active * TicksPerSecond < tick - session_expire_time * TicksPerSecond}

\* variant: the cutoff itself counts as expired
ExpiredSessions_inclusive(store, tick) ==
  {x \in DOMAIN store :
     /\ store[x].last_active * TicksPerSecond
          <= tick - session_expire_time * TicksPerSecond
     /\ store[x].is_main_user = FALSE}

\* the rows the sweep's query selects: non-privileged, last_active < now - timeout
ExpiredSessions(store, tick) ==
  {x \in DOMAIN store :
     /\ store[x].last_active * TicksPerSecond < tick - session_expire_time * TicksPerSecond
     /\ store[x].is_main_user = FALSE}

cleanup_query ==
  /\ cleanup_alive
  /\ loop.op = "idle"
  /\ loop' = [IdleLoop EXCEPT !.op = "sweep", !.stage = "read",
                              !.expired = ExpiredSessions(sessions, now)]
  /\ UNCHANGED <<now, cleanup_alive, notifications, accounts, sessions, next_xid, req>>

\* variant: the sweep deletes only the rows that are still stale at its commit
cleanup_commit_recheck ==
  /\ loop.op = "sweep" /\ loop.stage = "read"
  /\ sessions' = DeleteRows(sessions, loop.expired \cap ExpiredSessions(sessions, now))
  /\ loop' = [loop EXCEPT !.stage = "done", !.result = TRUE]
  /\ UNCHANGED <<now, cleanup_alive, notifications, accounts, next_xid, req>>

\* variant: the DELETEs of the sweep are never committed
cleanup_commit_uncommitted ==
  /\ loop.op = "sweep" /\ loop.stage = "read"
  /\ loop' = [loop EXCEPT !.stage = "done", !.result = TRUE]
  /\ UNCHANGED <<now, cleanup_alive, notifications, accounts, sessions, next_xid, req>>

\* session.delete of every selected row, then commit
cleanup_commit ==
  /\ loop.op = "sweep" /\ loop.stage = "read"
  /\ sessions' = DeleteRows(sessions, loop.expired)
  /\ loop' = [loop EXCEPT !.stage = "done", !.result = TRUE]
  /\ UNCHANGED <<now, cleanup_alive, notifications, accounts, next_xid, req>>

\* the response is sent (or the sweep goes back to sleep): the event loop is free
reply ==
  /\ loop.stage = "done"
  /\ loop' = IdleLoop
  /\ UNCHANGED <<now, cleanup_alive, notifications, accounts, sessions, next_xid, req>>

Next ==
  \/ Tick
  \/ \E t \in Threads : ccu_query(t)
  \/ \E t \in Threads : ccu_check(t)
  \/ \E t \in Threads : ccu_expire(t)
  \/ \E t \in Threads : ccu_refresh(t)
  \/ \E t \in Threads : ccu_return(t)
  \/ login
  \/ logout_query
  \/ logout_commit
  \/ cleanup_query
  \/ cleanup_commit
  \/ reply

Spec == Init /\ [][Next]_vars

\* one worker thread is enough to interleave resolves with the sweep
LiveThreads == {"t1"}

\* ------------------------------------------------------------ accounts
\* a field the request body leaves out (JSON null, Python None)
None == "null"

\* ids random_id can still give to a new account
NewIds == {"u3"}

AccountIds == Users \cup NewIds

\* str.upper(), on the strings the requests below carry
Upper(str) ==
  CASE str = "main" -> "MAIN"
    [] str = "sub" -> "SUB"
    [] str = "root" -> "ROOT"
    [] str = "bogus" -> "BOGUS"
    [] OTHER -> str

\* the role and gender values create_account and update_account accept
Roles == {"TEST", "MAIN", "SUB", "SYSTEM"}

Genders == {"MALE", "FEMALE", "OTHER"}

\* Python truthiness of an optional string
Truthy(str) == str # None /\ str # ""

\* request bodies (Account): the fields that decide the handlers' branches
Body(e, p, r, g) == [email |-> e, password |-> p, role |-> r, gender |-> g]

\* bodies that make an account a SYSTEM account
SystemBodies == {Body(None, None, "SYSTEM", None)}

\* bodies that only change the role
RoleBodies == {Body(None, None, r, None) : r \in {"MAIN", "sub"}}

AccountBodies ==
  {Body(e, p, r, g) : e \in {None, "", "e1", "e3"}, p \in {None, "", "p9"},
                      r \in {None, "", "main", "root"}, g \in {None, "bogus"}}

\* Database.get_all_email
get_all_email == {accounts[u].email : u \in DOMAIN accounts}

\* Database.get_all_account_id
get_all_account_id == DOMAIN accounts

\* jsonable_encoder(account): the body as sent, password included
EchoAll(b) == b.password

\* jsonable_encoder(account, exclude={"password"}), or an input without the field
EchoWithoutPassword(b) == Omitted

\* the response of an account handler
AccountAnswer(op, code, b, echo) ==
  [IdleLoop EXCEPT !.op = op, !.stage = "done", !.status = code,
                   !.email = b.email, !.password = b.password,
                   !.input_password = echo, !.result = (code < 400)]

\* AccountTable(id, email, role, ...) update_account hands to update_one_account
total_updated_account(b, previous) ==
  [email |-> IF b.email # None THEN b.email ELSE previous.email,
   role |-> IF b.role # None THEN Upper(b.role) ELSE previous.role]

\* Database.update_one_account: the row after the commit
update_one_account(store, account_id, updated) ==
  IF account_id \in DOMAIN store
  THEN [store EXCEPT ![account_id].email =
                       IF updated.email # None THEN updated.email ELSE @,
                     ![account_id].role =
                       IF updated.role # None THEN updated.role ELSE @]
  ELSE store

\* variant: the account's own email is not a conflict
update_account_allows_own(bodies) ==
  /\ loop.op = "idle"
  /\ \E user_id \in AccountIds, b \in bodies :
       LET previous == get_one_account(user_id)
           refuse(code, echo) ==
             /\ loop' = [AccountAnswer("update_account", code, b, echo)
                           EXCEPT !.user_id = user_id]
             /\ accounts' = accounts
       IN  IF ~previous.found THEN refuse(404, EchoWithoutPassword(b))
           ELSE IF Truthy(b.role) /\ Upper(b.role) \notin Roles
             THEN refuse(400, EchoAll(b))
           ELSE IF b.gender # None /\ Upper(b.gender) \notin Genders
             THEN refuse(400, EchoAll(b))
           ELSE IF Truthy(b.email) /\ b.email \in get_all_email
                   /\ b.email # previous.email
             THEN refuse(409, EchoAll(b))
           ELSE /\ accounts' = update_one_account(accounts, user_id,
                                                  total_updated_account(b, previous))
                /\ loop' = [AccountAnswer("update_account", 200, b, Omitted)
                              EXCEPT !.user_id = user_id]
  /\ UNCHANGED <<now, cleanup_alive, notifications, sessions, next_xid, req>>

\* PATCH /accounts/{user_id}
update_account(bodies) ==
  /\ loop.op = "idle"
  /\ \E user_id \in AccountIds, b \in bodies :
       LET previous == get_one_account(user_id)
           refuse(code, echo) ==
             /\ loop' = [AccountAnswer("update_account", code, b, echo)
                           EXCEPT !.user_id = user_id]
             /\ accounts' = accounts
       IN  IF ~previous.found THEN refuse(404, EchoWithoutPassword(b))
           ELSE IF Truthy(b.role) /\ Upper(b.role) \notin Roles
             THEN refuse(400, EchoAll(b))
           ELSE IF b.gender # None /\ Upper(b.gender) \notin Genders
             THEN refuse(400, EchoAll(b))
           ELSE IF Truthy(b.email) /\ b.email \in get_all_email
             THEN refuse(409, EchoAll(b))
           ELSE /\ accounts' = update_one_account(accounts, user_id,
                                                  total_updated_account(b, previous))
                /\ loop' = [AccountAnswer("update_account", 200, b, Omitted)
                              EXCEPT !.user_id = user_id]
  /\ UNCHANGED <<now, cleanup_alive, notifications, sessions, next_xid, req>>

\* AccountTable(id, email, password, role, ...) create_account builds
new_account(b) ==
  [email |-> b.email, password |-> hash_password(b.password),
   role |-> IF b.role # None THEN Upper(b.role) ELSE "TEST"]

\* Database.create_account: session.add(account_data), commit
Database_create_account(store, new_id, row) ==
  [u \in (DOMAIN store) \cup {new_id} |-> IF u = new_id THEN row ELSE store[u]]

\* POST /accounts
create_account ==
  /\ loop.op = "idle"
  /\ \E b \in AccountBodies :
       LET refuse(code, echo) ==
             /\ loop' = AccountAnswer("create_account", code, b, echo)
             /\ accounts' = accounts
       IN  IF b.password = None \/ b.password = "" THEN refuse(422, EchoAll(b))
           ELSE IF b.role = None \/ b.role = "" THEN refuse(422, EchoWithoutPassword(b))
           ELSE IF b.email = None \/ b.email = "" THEN refuse(422, EchoWithoutPassword(b))
           ELSE IF b.role # None /\ Upper(b.role) \notin Roles
             THEN refuse(400, EchoWithoutPassword(b))
           ELSE IF b.gender # None /\ Upper(b.gender) \notin Genders
             THEN refuse(400, Omitted)
           ELSE IF b.email \in get_all_email THEN refuse(409, EchoWithoutPassword(b))
           ELSE \E new_id \in AccountIds \ get_all_account_id :
                  /\ accounts' = Database_create_account(accounts, new_id, new_account(b))
                  /\ loop' = AccountAnswer("create_account", 201, b, Omitted)
  /\ UNCHANGED <<now, cleanup_alive, notifications, sessions, next_xid, req>>

AccountNext ==
  \/ create_account
  \/ update_account(AccountBodies)
  \/ reply

\* the account routes, one request after the other on the event loop
AccountSpec == Init /\ [][AccountNext]_vars

RoleNext ==
  \/ Tick
  \/ \E t \in LiveThreads : ccu_query(t)
  \/ \E t \in LiveThreads : ccu_check(t)
  \/ \E t \in LiveThreads : ccu_expire(t)
  \/ \E t \in LiveThreads : ccu_refresh(t)
  \/ \E t \in LiveThreads : ccu_return(t)
  \/ login
  \/ cleanup_query
  \/ cleanup_commit
  \/ update_account(RoleBodies)
  \/ reply

\* sessions of accounts whose role changes
RoleSpec == Init /\ [][RoleNext]_vars

\* ----------------------------------------------------- change_password
\* request bodies (ChangePassword): <<user_id, current_password, new_password>>
ChangePasswordInputs ==
  {<<"", "p1", "p3">>, <<"u1", "", "p3">>, <<"u1", "p1", "">>,
   <<"u1", "p1", "p3">>, <<"u1", "p2", "p3">>, <<"u2", "p2", "p3">>,
   <<"u2", "p1", "p3">>, <<"u3", "p1", "p3">>}

\* Database.change_password: the accounts table after the commit
Database_change_password(store, user_id, new_hashed_password) ==
  IF user_id \in DOMAIN store
  THEN [store EXCEPT ![user_id].password = new_hashed_password]
  ELSE store

\* variant: the current password is never verified
ChangePasswordStatus_unverified(request_id, target_user_id, current_password, new_password) ==
  LET request_data == get_one_account(request_id)
      user_data == get_one_account(target_user_id)
  IN  IF target_user_id = "" \/ current_password = "" \/ new_password = "" THEN 422
      ELSE IF \/ ~request_data.found
              \/ (request_data.role # "SYSTEM" /\ target_user_id # request_id) THEN 403
      ELSE IF ~user_data.found THEN 404
      ELSE 200

\* the status change_password answers with
ChangePasswordStatus(request_id, target_user_id, current_password, new_password) ==
  LET request_data == get_one_account(request_id)
      user_data == get_one_account(target_user_id)
  IN  IF target_user_id = "" \/ current_password = "" \/ new_password = "" THEN 422
      ELSE IF \/ ~request_data.found
              \/ (request_data.role # "SYSTEM" /\ target_user_id # request_id) THEN 403
      ELSE IF ~user_data.found THEN 404
      ELSE IF /\ request_data.role # "SYSTEM"
              /\ ~verify_password(current_password, get_hashed_password(target_user_id))
        THEN 401
      ELSE 200

\* PATCH /auth/change-password: the handler runs on the event loop with the
\* user id its dependency check_current_user returned on worker thread t
change_password(t) ==
  /\ req[t].pc = "done"
  /\ loop.op = "idle"
  /\ \E in \in ChangePasswordInputs :
       LET code == ChangePasswordStatus(req[t].user_id, in[1], in[2], in[3])
       IN  /\ loop' = [IdleLoop EXCEPT !.op = "change_password", !.stage = "done",
                                       !.status = code, !.password = in[3],
                                       !.user_id = in[1],
                                       !.current_password = in[2],
                                       !.result = (code = 200),
                                       !.input_password =
                                          IF code = 200 THEN Omitted ELSE Redacted]
           /\ accounts' = IF code = 200
                          THEN Database_change_password(accounts, in[1], hash_password(in[3]))
                          ELSE accounts
  /\ req' = [req EXCEPT ![t] = IdleThread]
  /\ UNCHANGED <<now, cleanup_alive, notifications, sessions, next_xid>>

ProtectedNext ==
  \/ Tick
  \/ \E t \in LiveThreads : ccu_query(t)
  \/ \E t \in LiveThreads : ccu_check(t)
  \/ \E t \in LiveThreads : ccu_expire(t)
  \/ \E t \in LiveThreads : ccu_refresh(t)
  \/ \E t \in LiveThreads : ccu_return(t)
  \/ \E t \in LiveThreads : change_password(t)
  \/ update_account(SystemBodies)
  \/ login
  \/ reply

\* a protected route behind the resolve of its session cookie
ProtectedSpec == Init /\ [][ProtectedNext]_vars

\* -------------------------------------------------------- notifications
\* the families table and the member rows; no operation modelled here writes
\* them.  Family f1 is led by u1, family f2 by an id that has no account and
\* has u2 as its member.
Families == [f \in {"f1", "f2"} |-> IF f = "f1" THEN "u1" ELSE "u3"]

Members == [f \in {"f1", "f2"} |-> IF f = "f1" THEN {} ELSE {"u2"}]

\* Database.get_one_family: {} for an id without a row
get_one_family(family_id) ==
  IF family_id \in DOMAIN Families
  THEN [found |-> TRUE, main_user |-> Families[family_id]]
  ELSE [found |-> FALSE, main_user |-> ""]

\* Database.get_all_members(family_id): the user ids of the member rows
get_all_members(family_id) ==
  IF family_id \in DOMAIN Members THEN Members[family_id] ELSE {}

\* ([family_data["main_user"]] if family_data else []) + the members' user ids
permission_id(family_id) ==
  (IF get_one_family(family_id).found THEN {get_one_family(family_id).main_user} ELSE {})
    \cup get_all_members(family_id)

\* variant: any account may act on any family's notifications
FamilyPermission_any_account(request_id, family_id) ==
  get_one_account(request_id).found

\* the negation of the handlers' 403 test on a family's notifications
FamilyPermission(request_id, family_id) ==
  /\ get_one_account(request_id).found
  /\ \/ get_one_account(request_id).role = "SYSTEM"
     \/ request_id \in permission_id(family_id)

\* the negation of delete_notification's 403 test
DeletePermission(request_id) ==
  /\ get_one_account(request_id).found
  /\ get_one_account(request_id).role = "SYSTEM"

\* request bodies of POST /notify: <<family_id, notification_grade>>
NotificationInputs ==
  {<<"", None>>, <<"f1", None>>, <<"f1", "bogus">>, <<"f2", "high">>}

NotificationIds == 1..MaxNotifications

\* Database.get_one_notification
get_one_notification(notification_id) ==
  IF notification_id \in DOMAIN notifications.rows
  THEN [found |-> TRUE, family_id |-> notifications.rows[notification_id].family_id]
  ELSE [found |-> FALSE, family_id |-> ""]

\* Database.create_notification: INSERT under the next index
create_notification(store, family_id) ==
  [rows |-> [i \in (DOMAIN store.rows) \cup {store.auto_increment} |->
               IF i = store.auto_increment
               THEN [family_id |-> family_id, is_read |-> FALSE]
               ELSE store.rows[i]],
   auto_increment |-> store.auto_increment + 1]

\* Database.check_read_notifications: is_read = True
check_read_notifications(store, notification_id) ==
  [store EXCEPT !.rows[notification_id].is_read = TRUE]

\* Database.delete_notifications
delete_notifications(store, notification_id) ==
  [store EXCEPT !.rows = [i \in (DOMAIN store.rows) \ {notification_id} |-> store.rows[i]]]

\* the response of a notification route to the request of thread t; a store
\* call that returns False writes nothing and the route answers 500
NotifyAnswer(t, op, code, family_id, notification_id) ==
  /\ loop' = [IdleLoop EXCEPT !.op = op, !.stage = "done", !.status = code,
                              !.result = (code < 400), !.user_id = req[t].user_id,
                              !.family_id = family_id,
                              !.notification_id = notification_id]
  /\ req' = [req EXCEPT ![t] = IdleThread]

\* POST /notify
crate_notification(t) ==
  /\ req[t].pc = "done"
  /\ loop.op = "idle"
  /\ \E in \in NotificationInputs :
       LET family_id == in[1]  grade == in[2]
           refuse(code) ==
             /\ NotifyAnswer(t, "crate_notification", code, family_id, 0)
             /\ notifications' = notifications
       IN  IF family_id = "" THEN refuse(422)
           ELSE IF grade # None /\ grade # "high" THEN refuse(400)
           ELSE IF ~FamilyPermission(req[t].user_id, family_id) THEN refuse(403)
           ELSE \/ /\ notifications.auto_increment <= MaxNotifications
                   /\ notifications' = create_notification(notifications, family_id)
                   /\ NotifyAnswer(t, "crate_notification", 201, family_id,
                                   notifications.auto_increment)
                \/ refuse(500)
  /\ UNCHANGED <<now, cleanup_alive, accounts, sessions, next_xid>>

\* GET /notify/new/{family_id} and GET /notify/all/{family_id}
get_all_notification(t) ==
  /\ req[t].pc = "done"
  /\ loop.op = "idle"
  /\ \E family_id \in {"f1", "f2", "f9"} :
       NotifyAnswer(t, "get_all_notification",
                    IF FamilyPermission(req[t].user_id, family_id) THEN 200 ELSE 403,
                    family_id, 0)
  /\ UNCHANGED <<now, cleanup_alive, notifications, accounts, sessions, next_xid>>

\* PATCH /notify/read/{notification_id}
read_notification(t) ==
  /\ req[t].pc = "done"
  /\ loop.op = "idle"
  /\ \E notification_id \in NotificationIds :
       LET notification_data == get_one_notification(notification_id)
           refuse(code) ==
             /\ NotifyAnswer(t, "read_notification", code,
                             notification_data.family_id, notification_id)
             /\ notifications' = notifications
       IN  IF ~notification_data.found THEN refuse(404)
           ELSE IF ~FamilyPermission(req[t].user_id, notification_data.family_id)
             THEN refuse(403)
           ELSE \/ /\ notifications' = check_read_notifications(notifications,
                                                                notification_id)
                   /\ NotifyAnswer(t, "read_notification", 200,
                                   notification_data.family_id, notification_id)
                \/ refuse(500)
  /\ UNCHANGED <<now, cleanup_alive, accounts, sessions, next_xid>>

\* DELETE /notify/{notification_id}
delete_notification(t) ==
  /\ req[t].pc = "done"
  /\ loop.op = "idle"
  /\ \E notification_id \in NotificationIds :
       LET notification_data == get_one_notification(notification_id)
           refuse(code) ==
             /\ NotifyAnswer(t, "delete_notification", code,
                             notification_data.family_id, notification_id)
             /\ notifications' = notifications
       IN  IF ~DeletePermission(req[t].user_id) THEN refuse(403)
           ELSE IF ~notification_data.found THEN refuse(404)
           ELSE \/ /\ notifications' = delete_notifications(notifications, notification_id)
                   /\ NotifyAnswer(t, "delete_notification", 200,
                                   notification_data.family_id, notification_id)
                \/ refuse(500)
  /\ UNCHANGED <<now, cleanup_alive, accounts, sessions, next_xid>>

NotifyNext ==
  \/ \E t \in LiveThreads : ccu_query(t)
  \/ \E t \in LiveThreads : ccu_check(t)
  \/ \E t \in LiveThreads : ccu_refresh(t)
  \/ \E t \in LiveThreads : crate_notification(t)
  \/ \E t \in LiveThreads : get_all_notification(t)
  \/ \E t \in LiveThreads : read_notification(t)
  \/ \E t \in LiveThreads : delete_notification(t)
  \/ update_account(SystemBodies)
  \/ login
  \/ reply

\* the notification routes behind the resolve of the session cookie; the
\* clock stands still, no session expires
NotifySpec == Init /\ [][NotifyNext]_vars

\* ---------------------------------------------------------- fairness
\* the clock advances; a coroutine that runs on the event loop runs to its
\* end (its store calls block the loop, nothing else can be scheduled in
\* between); the sweep's sleep timer expires again and again, and the loop
\* runs the sweep each time it is free
Fairness ==
  /\ WF_vars(Tick)
  /\ SF_vars(cleanup_query)
  /\ WF_vars(cleanup_commit)
  /\ WF_vars(logout_commit)
  /\ WF_vars(reply)

LiveNext ==
  \/ Tick
  \/ \E t \in LiveThreads : ccu_query(t)
  \/ \E t \in LiveThreads : ccu_check(t)
  \/ \E t \in LiveThreads : ccu_expire(t)
  \/ \E t \in LiveThreads : ccu_refresh(t)
  \/ \E t \in LiveThreads : ccu_return(t)
  \/ login
  \/ logout_query
  \/ logout_commit
  \/ cleanup_query
  \/ cleanup_commit
  \/ reply

LiveSpec == Init /\ [][LiveNext]_vars /\ Fairness

\* ------------------------------------------------------ storage faults
\* where a store function's transaction can fail: in a statement inside the
\* try block, or in the session.commit() of the finally block
Faults == {"statement", "commit"}

\* what a store function hands to its caller: its bool result ("True",
\* "False"), or the exception that left it
Raised == "raised"

\* variant: the except branch leaves result at True
create_session_result_optimistic(f) == IF f = "commit" THEN Raised ELSE "True"

\* create_session: try add, result = True / except SQLAlchemyError: rollback,
\* result = False / finally: commit (outside any try), return result
create_session_result(f) ==
  IF f = "commit" THEN Raised ELSE IF f = "statement" THEN "False" ELSE "True"

\* login's answer to the result of create_session; an exception that leaves
\* the handler is answered by the server with a bare 500
LoginAnswer(e, p, xid, result) ==
  IF result = Raised
  THEN [IdleLoop EXCEPT !.op = "login", !.stage = "done", !.email = e, !.password = p,
                        !.status = 500, !.raised = TRUE]
  ELSE IF result = "False"
  THEN [IdleLoop EXCEPT !.op = "login", !.stage = "done", !.email = e, !.password = p,
                        !.status = 500, !.input_password = Redacted]
  ELSE [IdleLoop EXCEPT !.op = "login", !.stage = "done", !.email = e, !.password = p,
                        !.status = 200, !.set_cookie = xid, !.result = TRUE]

\* login of a verified user whose create_session meets a storage fault: the
\* generated id is used up, the transaction is not committed
login_fault ==
  /\ loop.op = "idle"
  /\ next_xid <= MaxSessions
  /\ \E in \in LoginInputs, f \in Faults :
       LET e == in[1]  p == in[2]  user_id == get_id_from_email(e)
       IN  /\ e # "" /\ p # ""
           /\ user_id # ""
           /\ get_one_account(user_id).found
           /\ PasswordVerified(p, user_id)
           /\ loop' = LoginAnswer(e, p, random_xid, create_session_result(f))
  /\ next_xid' = next_xid + 1
  /\ UNCHANGED <<now, cleanup_alive, notifications, accounts, sessions, req>>

\* delete_session: a failing query is caught (result False), a failing commit
\* of the DELETE leaves the function
delete_session_fault_result(f) ==
  IF f = "commit" THEN Raised ELSE "False"

\* logout whose delete_session meets a storage fault
logout_fault ==
  /\ loop.op = "logout" /\ loop.stage = "read"
  /\ \E f \in Faults :
       /\ f = "commit" => loop.found
       /\ loop' = [loop EXCEPT !.stage = "done", !.result = FALSE, !.status = 500,
                               !.raised = (delete_session_fault_result(f) = Raised)]
  /\ UNCHANGED <<now, cleanup_alive, notifications, accounts, sessions, next_xid, req>>

\* the sweep's query fails: except SQLAlchemyError: rollback, print, result = False;
\* the iteration ends with "Failed to clean up" and the loop goes on
cleanup_query_fault ==
  /\ cleanup_alive
  /\ loop.op = "idle"
  /\ loop' = [IdleLoop EXCEPT !.op = "sweep", !.stage = "done", !.result = FALSE]
  /\ UNCHANGED <<now, cleanup_alive, notifications, accounts, sessions, next_xid, req>>

\* the sweep's commit of its DELETEs fails: session.commit() in the finally
\* block raises, nothing catches it inside the while loop, the coroutine ends
cleanup_commit_fault ==
  /\ loop.op = "sweep" /\ loop.stage = "read"
  /\ loop.expired # {}
  /\ loop' = [loop EXCEPT !.stage = "done", !.result = FALSE, !.raised = TRUE]
  /\ cleanup_alive' = FALSE
  /\ UNCHANGED <<now, notifications, accounts, sessions, next_xid, req>>

FaultNext ==
  \/ Tick
  \/ login
  \/ login_fault
  \/ logout_query
  \/ logout_commit
  \/ logout_fault
  \/ cleanup_query
  \/ cleanup_commit
  \/ cleanup_query_fault
  \/ cleanup_commit_fault
  \/ reply

\* the event loop's handlers and the sweep over a store that can fail
FaultSpec == Init /\ [][FaultNext]_vars

\* ------------------------------------------------------------- claims
\* steps of one resolve, seen from outside
Checks(t) == req[t].pc = "read" /\ req'[t].pc # "read"

Completes(t) == req[t].pc # "done" /\ req'[t].pc = "done"

\* steps of the event loop, seen from outside
LogoutCommits == loop.op = "logout" /\ loop.stage = "read" /\ loop'.stage = "done"

SweepQueries == loop.op = "idle" /\ loop'.op = "sweep"

SweepCommits == loop.op = "sweep" /\ loop.stage = "read" /\ loop'.stage = "done"

\* C1: a resolve of a non-privileged session S that finds
\* int(time()) - S.last_active > session_expire_time takes the expiry branch,
\* returns the empty user id, and S's row is not in the store afterwards.
C1_ExpiredResolveDeletes ==
  [][\A t \in Threads :
       /\ (/\ Checks(t)
           /\ ~req[t].login_data.is_main_user
           /\ NowSec - req[t].login_data.last_active > session_expire_time)
          => req'[t].pc = "expired"
       /\ (req[t].pc = "expired" /\ Completes(t))
          => /\ req'[t].user_id = ""
             /\ req[t].session_id \notin DOMAIN sessions']_vars

C1_Witness ==
  \E t \in Threads :
    /\ req[t].pc = "done" /\ req[t].login_data.found
    /\ ~req[t].login_data.is_main_user
    /\ req[t].user_id = ""
    /\ req[t].session_id \notin DOMAIN sessions

\* C2: the row of a privileged session leaves the store only in the commit of
\* a delete_session of its id (never by a resolve, never by the sweep), and a
\* resolve that read a privileged row returns its user id however long it idled.
C2_PrivilegedNeverExpires ==
  [][/\ \A x \in DOMAIN sessions :
          (sessions[x].is_main_user /\ x \notin DOMAIN sessions')
            => (LogoutCommits /\ loop.session_id = x)
     /\ \A t \in Threads :
          (Completes(t) /\ req'[t].login_data.found
                        /\ req'[t].login_data.is_main_user)
            => /\ req'[t].user_id = req'[t].login_data.user_id
               /\ req'[t].user_id # ""]_vars

C2_Witness ==
  \E t \in Threads :
    /\ req[t].pc = "done" /\ req[t].login_data.found
    /\ req[t].login_data.is_main_user
    /\ req[t].user_id = req[t].login_data.user_id
    /\ req[t].session_id \in DOMAIN sessions
    /\ sessions[req[t].session_id].last_active - req[t].login_data.last_active
         > session_expire_time

\* C3: a resolve of a row that is privileged, or idle for at most
\* session_expire_time, takes the refresh branch; with the row still in the
\* store, the refresh sets its last_active to the time of the refresh and
\* returns the owner's id, and the row as left is not expired at that time,
\* so a resolve that follows at once returns the same user id.
C3_ResolveRefreshes ==
  [][\A t \in Threads :
       /\ (/\ Checks(t)
           /\ \/ req[t].login_data.is_main_user
              \/ NowSec - req[t].login_data.last_active <= session_expire_time)
          => req'[t].pc = "fresh"
       /\ (/\ req[t].pc = "fresh" /\ Completes(t)
           /\ req[t].session_id \in DOMAIN sessions)
          => /\ req[t].session_id \in DOMAIN sessions'
             /\ sessions'[req[t].session_id].last_active = NowSec
             /\ req'[t].user_id = sessions[req[t].session_id].user_id
             /\ req'[t].user_id # ""
             /\ ~IsExpired(sessions'[req[t].session_id], NowSec)
             /\ sessions'[req[t].session_id].user_id = req'[t].user_id]_vars

C3_Witness ==
  \E t \in Threads :
    /\ req[t].pc = "done" /\ req[t].login_data.found
    /\ req[t].user_id = req[t].login_data.user_id
    /\ req[t].session_id \in DOMAIN sessions
    /\ sessions[req[t].session_id].last_active = NowSec
    /\ req[t].login_data.last_active < NowSec

\* C4: one sweep selects exactly the rows that are non-privileged and whose
\* last_active is before now - session_expire_time, and its commit removes
\* exactly the selected rows and leaves every other row as it was.
C4_SweepRemovesExactlyStale ==
  [][/\ SweepQueries =>
          loop'.expired =
            {x \in DOMAIN sessions :
               /\ ~sessions[x].is_main_user
               /\ sessions[x].last_active * TicksPerSecond
                    < now - session_expire_time * TicksPerSecond}
     /\ SweepCommits =>
          /\ DOMAIN sessions' = (DOMAIN sessions) \ loop.expired
          /\ \A x \in DOMAIN sessions' : sessions'[x] = sessions[x]]_vars

C4_Witness ==
  /\ loop.op = "sweep" /\ loop.stage = "done"
  /\ loop.expired # {}
  /\ loop.expired \cap DOMAIN sessions = {}
  /\ \E a \in DOMAIN sessions :
       /\ sessions[a].is_main_user
       /\ sessions[a].last_active * TicksPerSecond
            < now - session_expire_time * TicksPerSecond

\* C5: a delete_session that found the row returns True and the row is gone
\* after it; a removed row stays absent; a delete_session that found no row
\* returns False and leaves the store as it was.
C5_DeleteTwice ==
  [][/\ LogoutCommits =>
          IF loop.found
          THEN loop'.result = TRUE /\ loop.session_id \notin DOMAIN sessions'
          ELSE loop'.result = FALSE /\ sessions' = sessions
     /\ \A x \in XIDs :
          (x < next_xid /\ x \notin DOMAIN sessions) => x \notin DOMAIN sessions']_vars

C5_Witness ==
  /\ loop.op = "logout" /\ loop.stage = "done"
  /\ loop.session_id # NoCookie
  /\ loop.result = FALSE
  /\ \E t \in Threads :
       /\ req[t].session_id = loop.session_id
       /\ req[t].login_data.found
       /\ req[t].login_data.is_main_user

\* C6: a logout whose session_id cookie names a session that is absent from
\* the store still answers with the successful logout response.
C6_LogoutOfAbsentSucceeds ==
  (/\ loop.op = "logout" /\ loop.stage = "done"
   /\ loop.session_id # NoCookie /\ ~loop.found)
    => loop.status = 200

LoginAnswers == loop.op = "idle" /\ loop'.op = "login"

\* the account registered with the email of the login request being answered
Registered(u) == u \in DOMAIN accounts /\ accounts[u].email = loop'.email

\* C7: a login with the email of an existing account and a wrong (non-empty)
\* password answers 401, sets no session_id cookie and leaves the session
\* store as it was.
C7_WrongPasswordCreatesNothing ==
  [][\A u \in Users :
       (/\ LoginAnswers /\ Registered(u)
        /\ loop'.password # ""
        /\ accounts[u].password # hash_password(loop'.password))
         => /\ loop'.status = 401
            /\ loop'.set_cookie = NoCookie
            /\ sessions' = sessions]_vars

C7_Witness ==
  /\ loop.op = "login" /\ loop.stage = "done" /\ loop.status = 401
  /\ loop.password # ""
  /\ \E u \in DOMAIN accounts :
       /\ accounts[u].email = loop.email
       /\ accounts[u].password # hash_password(loop.password)
  /\ DOMAIN sessions # {}

\* C8: a login with the email and the password of an account answers 200,
\* adds exactly one row (owned by that account, last_active the time of the
\* login) under an id that was not in the store, changes no other row, and
\* sets the session_id cookie to that id.
C8_LoginCreatesOneSession ==
  [][\A u \in Users :
       (/\ LoginAnswers /\ Registered(u)
        /\ accounts[u].password = hash_password(loop'.password))
         => \E k \in XIDs \ DOMAIN sessions :
              /\ DOMAIN sessions' = (DOMAIN sessions) \cup {k}
              /\ \A x \in DOMAIN sessions : sessions'[x] = sessions[x]
              /\ sessions'[k].user_id = u
              /\ sessions'[k].last_active = NowSec
              /\ loop'.status = 200
              /\ loop'.set_cookie = k]_vars

C8_Witness ==
  /\ loop.op = "login" /\ loop.stage = "done" /\ loop.status = 200
  /\ loop.set_cookie \in DOMAIN sessions
  /\ accounts[sessions[loop.set_cookie].user_id].email = loop.email
  /\ Cardinality(DOMAIN sessions) = 2

\* C9: a logout whose cookie names a session that delete_session finds removes
\* that row and no other (rows of the same user included), answers 200 and
\* clears the session_id cookie.
C9_LogoutRemovesOnlyItsSession ==
  [][(LogoutCommits /\ loop.found)
       => /\ DOMAIN sessions' = (DOMAIN sessions) \ {loop.session_id}
          /\ \A x \in DOMAIN sessions' : sessions'[x] = sessions[x]
          /\ loop'.status = 200
          /\ loop'.del_cookie = TRUE]_vars

C9_Witness ==
  /\ loop.op = "logout" /\ loop.stage = "done" /\ loop.found
  /\ loop.status = 200 /\ loop.del_cookie
  /\ loop.session_id \notin DOMAIN sessions
  /\ DOMAIN sessions # {}

\* a finished resolve that read the row of its session and reported no identity
ReportedAbsent(t) ==
  req[t].pc = "done" /\ req[t].login_data.found /\ req[t].user_id = ""

InFlight(t) == req[t].pc \in {"read", "expired", "fresh"}

\* the step in which a resolve's delete or refresh is committed
Writes(t) == req[t].pc \in {"expired", "fresh"} /\ req'[t].pc = "done"

\* C11: a resolve's read, expiry check and write are one atomic unit with
\* respect to the other resolves of the same session: while a resolve is
\* between its read of last_active and its own delete-or-refresh, no other
\* resolve of that session commits a write, so two resolves never both act on
\* the same last_active value.
C11_ResolveIsAtomic ==
  [][\A t, u \in Threads :
       (/\ t # u
        /\ InFlight(t)
        /\ req[u].session_id = req[t].session_id)
       => ~Writes(u)]_vars

\* the step in which a resolve looks its cookie up
Queries(t) == req[t].pc = "idle" /\ req'[t].pc # "idle"

\* C17: a resolve with no session id, or with an id that has no row, returns
\* the empty user id at once, and no step of it creates, deletes or refreshes
\* a row.
C17_AbsentResolvesToNoIdentity ==
  [][\A t \in Threads :
       /\ (/\ Queries(t)
           /\ \/ req'[t].session_id = NoCookie
              \/ req'[t].session_id \notin DOMAIN sessions)
          => /\ req'[t].pc = "done"
             /\ req'[t].user_id = ""
             /\ sessions' = sessions
       /\ (/\ req[t].pc = "done" /\ ~req[t].login_data.found
           /\ req'[t] # req[t])
          => sessions' = sessions]_vars

C17_Witness ==
  \E t \in Threads :
    /\ req[t].pc = "done"
    /\ req[t].session_id \in XIDs
    /\ ~req[t].login_data.found
    /\ req[t].user_id = ""
    /\ req[t].session_id \notin DOMAIN sessions
    /\ sessions # <<>>

\* the step in which a sweep iteration ends
SweepEnds == loop.op \in {"idle", "sweep"} /\ loop.stage # "done"
             /\ loop'.op = "sweep" /\ loop'.stage = "done"

\* C12: a sweep iteration that fails (a storage error in its query, its
\* deletes or its commit) does not end the background loop: after every
\* iteration, failed or not, cleanup_login_sessions is still running.
C12_SweepSurvivesFailure ==
  [][SweepEnds => cleanup_alive']_vars

\* C14: when the row of a new session cannot be persisted (storage error in
\* the add or in the commit), create_session does not report success, login
\* answers 500, sets no session_id cookie, and the store has no new row.
C14_FailedCreateIsInternalError ==
  [][(/\ LoginAnswers
      /\ next_xid' # next_xid
      /\ next_xid \notin DOMAIN sessions')
     => /\ loop'.status = 500
        /\ loop'.set_cookie = NoCookie
        /\ ~loop'.result
        /\ sessions' = sessions]_vars

C14_Witness ==
  /\ loop.op = "login" /\ loop.stage = "done"
  /\ loop.status = 500 /\ loop.raised
  /\ loop.set_cookie = NoCookie
  /\ next_xid > 1
  /\ next_xid - 1 \notin DOMAIN sessions

\* C15: no store function lets a persistence exception escape: every storage
\* failure, one at commit time included, reaches the handler as a False or
\* empty result.
C15_NoExceptionEscapes == ~loop.raised

\* a non-privileged session, last active in second k, whose timeout ends
\* before the clock's horizon
Abandoned(x, k) ==
  /\ x \in DOMAIN sessions
  /\ ~sessions[x].is_main_user
  /\ sessions[x].last_active = k
  /\ (k + session_expire_time) * TicksPerSecond < MaxTick

\* C13: a non-privileged session that is not resolved again (its last_active
\* stays what it is) is eventually removed from the store, given that time
\* advances and the sweep keeps being scheduled.
C13_AbandonedSessionIsSwept ==
  \A x \in XIDs : \A k \in 0..(MaxTick \div TicksPerSecond) :
    Abandoned(x, k) ~> (x \notin DOMAIN sessions \/ sessions[x].last_active # k)

\* a sweep has just removed an abandoned session that no resolve had touched
C13_Witness ==
  /\ loop.op = "sweep" /\ loop.stage = "done"
  /\ \E x \in loop.expired : x \notin DOMAIN sessions
  /\ \A t \in Threads : req[t].pc = "idle"

\* C16: the is_main_user flag of a session is what the account's role was at
\* login (TRUE iff MAIN); no later step writes it, whatever happens to the
\* role; the expiry check of a resolve and the selection of the sweep go by
\* the stored flag, not by the account's present role.
C16_FlagFixedAtLogin ==
  [][/\ (LoginAnswers /\ loop'.status = 200)
        => LET row == sessions'[loop'.set_cookie]
           IN  row.is_main_user = (accounts[row.user_id].role = "MAIN")
     /\ \A x \in DOMAIN sessions \cap DOMAIN sessions' :
          sessions'[x].is_main_user = sessions[x].is_main_user
     /\ \A t \in Threads :
          Checks(t) =>
            (req'[t].pc = "expired"
               <=> /\ ~req[t].login_data.is_main_user
                   /\ NowSec - req[t].login_data.last_active > session_expire_time)
     /\ SweepQueries =>
          \A x \in DOMAIN sessions :
            sessions[x].is_main_user => x \notin loop'.expired]_vars

\* a session created for a MAIN account is resolved as privileged, past the
\* timeout, after the account's role has become SUB
C16_Witness ==
  \E t \in Threads :
    /\ req[t].pc = "done"
    /\ req[t].login_data.is_main_user
    /\ req[t].user_id # ""
    /\ accounts[req[t].user_id].role # "MAIN"
    /\ NowSec - req[t].login_data.last_active > session_expire_time
    /\ req[t].session_id \in DOMAIN sessions

\* a failure response
Failure == loop.stage = "done" /\ loop.status >= 400

\* C19: the input a failure response echoes never carries a password the
\* client sent: the entry is left out, replaced by the placeholder, or is
\* the missing (null or empty) password itself.
C19_FailuresRedactPasswords ==
  Failure => loop.input_password \in {Omitted, Redacted, None, ""}

\* the step in which create_account or update_account answers
AccountAnswers ==
  loop.op = "idle" /\ loop'.op \in {"create_account", "update_account"}

\* C20: no two accounts have the same email, and a create_account or
\* update_account whose email is the email of an account changes no row and
\* is answered with 409 (or with the 404, 422 or 400 of an earlier check).
C20_EmailsUnique ==
  /\ [](\A u, v \in DOMAIN accounts :
          u # v => accounts[u].email # accounts[v].email)
  /\ [][(AccountAnswers /\ loop'.email \in get_all_email)
        => (loop'.status \in {409, 404, 422, 400} /\ accounts' = accounts)]_vars

\* the step in which the protected route answers the request of thread t
ProtectedAnswers(t) ==
  req[t].pc = "done" /\ loop.op = "idle" /\ loop'.op = "change_password"

\* C18: a request to a protected route whose session cookie is missing, or
\* resolves to the empty user id, is answered with 401.
C18_NoIdentityIsUnauthorized ==
  [][\A t \in Threads :
       (ProtectedAnswers(t) /\ req[t].user_id = "") => loop'.status = 401]_vars

\* the row of x is older than the sweep's cutoff at clock tick
OlderThanCutoff(x, tick) ==
  sessions[x].last_active * TicksPerSecond
    < tick - session_expire_time * TicksPerSecond

\* C22: the sweep deletes at its commit every session it selected at its
\* read, a refresh by a resolve in between notwithstanding; what it selected
\* was, at that read, non-privileged and older than the cutoff, so the race
\* never removes a privileged session or one that was within the timeout
\* when the sweep read it.
C22_SweepRaceOnlyHitsStale ==
  [][/\ SweepQueries
        => \A x \in loop'.expired :
             /\ x \in DOMAIN sessions
             /\ ~sessions[x].is_main_user
             /\ OlderThanCutoff(x, now)
     /\ SweepCommits
        => /\ \A x \in loop.expired : x \notin DOMAIN sessions'
           /\ \A x \in DOMAIN sessions \ loop.expired :
                x \in DOMAIN sessions' /\ sessions'[x] = sessions[x]]_vars

\* the sweep is about to delete a session that a resolve has refreshed since
\* the sweep read it: its row is within the timeout again
C22_Witness ==
  /\ loop.op = "sweep" /\ loop.stage = "read"
  /\ \E x \in loop.expired :
       /\ x \in DOMAIN sessions
       /\ ~OlderThanCutoff(x, now)
       /\ \E t \in Threads :
            /\ req[t].pc = "done" /\ req[t].session_id = x
            /\ req[t].user_id = sessions[x].user_id

\* the lazy test of check_current_user, applied to the row of x now
LazyExpired(x) == IsExpired(QueryFirst(x), NowSec)

\* the test of the sweep, applied to the row of x now
SweepExpired(x) == x \in ExpiredSessions(sessions, now)

\* C23 as stated: at every instant the two tests give the same answer for
\* every session.
C23_SamePredicate ==
  \A x \in DOMAIN sessions : LazyExpired(x) <=> SweepExpired(x)

\* C23, amended: a session the lazy test expires is expired by the sweep's
\* test too; the two agree whenever the clock is on a whole second; a session
\* idle for exactly session_expire_time seconds is expired by neither.  (Off
\* the whole second the sweep's cutoff keeps the fraction that int(time())
\* drops, and the sweep's test is ahead by up to a second.)
C23_SamePredicateOnWholeSeconds ==
  \A x \in DOMAIN sessions :
    /\ LazyExpired(x) => SweepExpired(x)
    /\ now % TicksPerSecond = 0 => (LazyExpired(x) <=> SweepExpired(x))
    /\ now = (sessions[x].last_active + session_expire_time) * TicksPerSecond
         => (~LazyExpired(x) /\ ~SweepExpired(x))

\* a non-privileged session that both tests expire, on a whole second
C23_Witness ==
  \E x \in DOMAIN sessions :
    /\ ~sessions[x].is_main_user
    /\ now % TicksPerSecond = 0
    /\ LazyExpired(x) /\ SweepExpired(x)

\* C24: a row enters the store only in a successful login, under the id
\* that login has just generated; the refresh of a resolve whose session was
\* removed after it was read changes nothing; a resolve that looks up a
\* removed session returns the empty user id.
C24_NoResurrection ==
  [][/\ \A x \in XIDs :
          (x \notin DOMAIN sessions /\ x \in DOMAIN sessions')
          => /\ LoginAnswers
             /\ loop'.set_cookie = x
             /\ x = next_xid
     /\ \A t \in Threads :
          /\ (/\ req[t].pc = "fresh" /\ Completes(t)
              /\ req[t].session_id \notin DOMAIN sessions)
             => sessions' = sessions
          /\ (/\ Queries(t)
              /\ req'[t].session_id \in XIDs
              /\ req'[t].session_id < next_xid
              /\ req'[t].session_id \notin DOMAIN sessions)
             => (req'[t].pc = "done" /\ req'[t].user_id = "")]_vars

\* one resolve has refreshed a session that is gone, another has looked the
\* same id up after the removal
C24_Witness ==
  \E t, u \in Threads :
    /\ req[t].pc = "done" /\ req[t].login_data.found /\ req[t].user_id # ""
    /\ req[t].session_id \notin DOMAIN sessions
    /\ req[u].pc = "done" /\ req[u].session_id = req[t].session_id
    /\ ~req[u].login_data.found

\* C25: a login leaves every row that was in the store as it was, and a
\* successful one adds exactly one row; a user can so hold several sessions;
\* the logout or the lazy expiry of one session leaves every other row as it
\* was.
C25_LoginKeepsOtherSessions ==
  [][/\ LoginAnswers
        => /\ \A x \in DOMAIN sessions :
                x \in DOMAIN sessions' /\ sessions'[x] = sessions[x]
           /\ loop'.status = 200
                => Cardinality(DOMAIN sessions') = Cardinality(DOMAIN sessions) + 1
     /\ LogoutCommits
        => \A x \in DOMAIN sessions \ {loop.session_id} :
             x \in DOMAIN sessions' /\ sessions'[x] = sessions[x]
     /\ \A t \in Threads :
          (req[t].pc = "expired" /\ Completes(t))
          => \A x \in DOMAIN sessions \ {req[t].session_id} :
               x \in DOMAIN sessions' /\ sessions'[x] = sessions[x]]_vars

\* a second login of a user has been answered, the first session is still
\* there and a resolve has returned its user
C25_Witness ==
  /\ loop.op = "login" /\ loop.stage = "done" /\ loop.status = 200
  /\ \E x \in DOMAIN sessions :
       /\ x # loop.set_cookie
       /\ sessions[x].user_id = sessions[loop.set_cookie].user_id
       /\ \E t \in Threads :
            /\ req[t].pc = "done" /\ req[t].session_id = x
            /\ req[t].user_id = sessions[x].user_id

\* C27: a login with an email of no account and a login with the email of an
\* account and a wrong password are answered alike: 401, the same type and
\* message, the password replaced in the echoed input, no cookie, no new row.
C27_LoginHidesRegistration ==
  [][(/\ LoginAnswers
      /\ loop'.email # "" /\ loop'.password # ""
      /\ loop'.status # 200)
     => /\ loop'.status = 401
        /\ loop'.detail = <<"unauthorized", "Invalid email or password">>
        /\ loop'.input_password = Redacted
        /\ loop'.set_cookie = NoCookie
        /\ sessions' = sessions
        /\ next_xid' = next_xid]_vars

\* an email of no account has been refused with the response a wrong
\* password gets
C27_Witness ==
  /\ loop.op = "login" /\ loop.stage = "done" /\ loop.status = 401
  /\ loop.email # ""
  /\ \A u \in DOMAIN accounts : accounts[u].email # loop.email
  /\ loop.detail = WrongPassword
  /\ loop.set_cookie = NoCookie

\* the step in which update_account answers
UpdateAnswers == loop.op = "idle" /\ loop'.op = "update_account"

MayChangePassword(t) ==
  /\ req[t].user_id \in DOMAIN accounts
  /\ loop'.user_id \in DOMAIN accounts
  /\ \/ accounts[req[t].user_id].role = "SYSTEM"
     \/ /\ loop'.user_id = req[t].user_id
        /\ accounts[loop'.user_id].password = hash_password(loop'.current_password)

\* C26: change_password answers 200 exactly to a complete request whose
\* requester may change the password, and then stores the hash of the new
\* password for the named account and nothing else; a SYSTEM requester needs
\* no current password; every refused request (422, 403, 404, 401) leaves the
\* password hash of every account as it was, and so does every other step.
C26_PasswordChangeAuthorized ==
  [][/\ \A t \in Threads :
          ProtectedAnswers(t)
          => /\ loop'.status \in {200, 422, 403, 404, 401}
             /\ loop'.status = 200
                  <=> /\ MayChangePassword(t)
                      /\ loop'.current_password # "" /\ loop'.password # ""
             /\ loop'.status = 200
                  => accounts' = [accounts EXCEPT ![loop'.user_id].password =
                                                    hash_password(loop'.password)]
             /\ loop'.status # 200 => accounts' = accounts
     /\ (\A t \in Threads : ~ProtectedAnswers(t))
        => \A u \in DOMAIN accounts :
             u \in DOMAIN accounts' /\ accounts'[u].password = accounts[u].password]_vars

\* a SYSTEM requester has changed the password of another account with a
\* current password that is not that account's
C26_Witness ==
  /\ loop.op = "change_password" /\ loop.stage = "done" /\ loop.status = 200
  /\ loop.user_id = "u2" /\ loop.current_password = "p1"
  /\ accounts["u2"].password = hash_password(loop.password)
  /\ accounts["u1"].role = "SYSTEM"

\* the step in which a notification route answers the request of thread t
NotifyAnswers(t) ==
  /\ req[t].pc = "done" /\ loop.op = "idle"
  /\ loop'.op \in {"crate_notification", "get_all_notification",
                   "read_notification", "delete_notification"}

\* u is an account with the SYSTEM role
IsSystem(u) == u \in DOMAIN accounts /\ accounts[u].role = "SYSTEM"

\* u is a SYSTEM account, the main user of family f, or a member of it
Allowed(u, f) ==
  /\ u \in DOMAIN accounts
  /\ \/ accounts[u].role = "SYSTEM"
     \/ (f \in DOMAIN Families /\ Families[f] = u)
     \/ (f \in DOMAIN Members /\ u \in Members[f])

====
